---- MODULE Spec2Model ----
(***************************************************************************)
(* A model of the ledger engine of banking_transactions (src/src/engine.rs).*)
(*                                                                         *)
(* Money.  The engine keeps f64 values and rounds them to 1/PRECISION.     *)
(* Here a monetary value is an integer number of 1/Scale, where            *)
(* Scale = PRECISION * Fine: one "cent" of the engine (1/10,000) is Fine   *)
(* model units, so an amount that is no multiple of Fine carries more      *)
(* than four decimal digits.  Arithmetic is exact (the binary rounding     *)
(* error of f64 sums is not modelled).                                     *)
(***************************************************************************)
EXTENDS Integers, Sequences, FiniteSets, TLC

VARIABLES accounts, transactions, disputed_transactions, last, steps, run,
          input, output

vars == <<accounts, transactions, disputed_transactions, last, steps, run,
          input, output>>

(***************************************************************************)
(* Bounds of the model: the number of calls of process_transaction (or of  *)
(* rows of the file), the number of rows of a file that is fixed           *)
(* beforehand, and the model units per 1/PRECISION.                        *)
(***************************************************************************)
MaxSteps == 5
MaxRows == 3
Fine == 4

\* const PRECISION: f64 = 10_000.0
PRECISION == 10000

Scale == PRECISION * Fine

\* The client ids (u16) and transaction ids (u32) the inputs use: two
\* clients, so that a record can name a client other than the owner of the
\* transaction it refers to, and two ids, so that one can be recorded while
\* the other is fresh.
Clients == {1, 2}
TxIds == {1, 2}

(***************************************************************************)
(* Option<f64>: None is the empty sequence, Some(a) the sequence <<a>>.    *)
(***************************************************************************)
None == <<>>
Some(a) == <<a>>

\* The amounts the inputs carry: a negative one, zero, one below a cent
\* and a half (more than four decimals), one cent, two cents.
AmountValues == {-Fine, 0, Fine, Fine + Fine \div 2}

TransactionType == {"Deposit", "Withdrawal", "Dispute", "Resolve", "Chargeback"}

\* struct Transaction { r#type, client, tx, amount }
Transaction(type, client, tx, amount) ==
    [type |-> type, client |-> client, tx |-> tx, amount |-> amount]

\* The records the callers hand to process_transaction.  A Dispute, Resolve
\* or Chargeback row carries no amount (its handlers never read it).
Transactions ==
    {Transaction(ty, c, id, a) :
        ty \in {"Deposit", "Withdrawal"}, c \in Clients, id \in TxIds,
        a \in {None} \cup {Some(v) : v \in AmountValues}}
    \cup
    {Transaction(ty, c, id, None) :
        ty \in {"Dispute", "Resolve", "Chargeback"}, c \in Clients, id \in TxIds}

NoTransaction == Transaction("None", 0, 0, None)

(***************************************************************************)
(* Result<(), E>.  An error keeps the enum it belongs to, its variant and  *)
(* the variant's fields.                                                   *)
(***************************************************************************)
Ok == [ok |-> TRUE, type |-> "", kind |-> "Ok", args |-> <<>>]
Err(type, kind, args) == [ok |-> FALSE, type |-> type, kind |-> kind, args |-> args]

\* impl From<AccountError> for DisputeError / ResolveError / ChargebackError:
\* AccountLocked(_) loses its id, NoSuchAccount(id) keeps it.
from_account_error(type, err) ==
    IF err.kind = "AccountLocked"
    THEN Err(type, "AccountLocked", <<>>)
    ELSE Err(type, "NoSuchAccount", err.args)

(***************************************************************************)
(* impl Account                                                            *)
(***************************************************************************)
\* The magnitude of a value.
Abs(x) == IF x < 0 THEN -x ELSE x

\* A mutant of f64_round: (x + 1.0).floor(), a ceiling that also moves whole
\* numbers up.
f64_floor_of_next(n, d) == (n + d) \div d

\* f64::round applied to the rational n / d (d > 0): the nearest integer,
\* halves away from zero.
f64_round(n, d) ==
    IF n >= 0 THEN (2 * n + d) \div (2 * d)
    ELSE -((2 * (-n) + d) \div (2 * d))

\* fn round(value) = (value * PRECISION).round() / PRECISION
round(value) == (f64_round(value * PRECISION, Scale) * Scale) \div PRECISION

\* A mutant of new_account: the balance is stored as given, not rounded.
new_account_unrounded(client, balance) ==
    [client |-> client, available |-> balance, held |-> 0,
     total |-> balance, locked |-> FALSE]

new_account(client, balance) ==
    LET b == round(balance) IN
    [client |-> client, available |-> b, held |-> 0, total |-> b, locked |-> FALSE]

lock(account) == [account EXCEPT !.locked = TRUE]

\* fn calculate_total(&self) = self.available - self.held
calculate_total(account) == account.available - account.held

deposit_funds(account, amount) ==
    LET a == [account EXCEPT !.available = round(account.available + amount)] IN
    [a EXCEPT !.total = round(calculate_total(a))]

withdraw_funds(account, amount) ==
    LET a == [account EXCEPT !.available = round(account.available - amount)] IN
    [a EXCEPT !.total = round(calculate_total(a))]

(***************************************************************************)
(* impl Ledger.  A ledger value L is the record of the three collections;  *)
(* a handler yields the ledger it leaves behind and the Result it returns. *)
(***************************************************************************)
Ledger(a, t, d) == [accounts |-> a, transactions |-> t, disputed_transactions |-> d]

Ret(L, result) == [ledger |-> L, result |-> result]

\* A mutant of get_account_entry: a locked account is handed out like any other.
get_account_entry_ignoring_lock(L, id) ==
    IF id \in DOMAIN L.accounts THEN Ok
    ELSE Err("AccountError", "NoSuchAccount", <<id>>)

get_account_entry(L, id) ==
    IF id \in DOMAIN L.accounts
    THEN IF L.accounts[id].locked
         THEN Err("AccountError", "AccountLocked", <<id>>)
         ELSE Ok
    ELSE Err("AccountError", "NoSuchAccount", <<id>>)

\* A mutant of save_transaction: the record is stored under its client.
save_transaction_by_client(L, transaction) ==
    IF transaction.client \in DOMAIN L.transactions
    THEN Ret(L, Err("DuplicateTransactionError", "DuplicateTx", <<transaction.tx>>))
    ELSE Ret([L EXCEPT !.transactions = (transaction.client :> transaction) @@ @], Ok)

\* A mutant of save_transaction: an occupied entry is overwritten.
save_transaction_overwriting(L, transaction) ==
    Ret([L EXCEPT !.transactions = (transaction.tx :> transaction) @@ @], Ok)

save_transaction(L, transaction) ==
    IF transaction.tx \in DOMAIN L.transactions
    THEN Ret(L, Err("DuplicateTransactionError", "DuplicateTx", <<transaction.tx>>))
    ELSE Ret([L EXCEPT !.transactions = (transaction.tx :> transaction) @@ @], Ok)

\* A mutant of put_account: the registry is replaced by the one account.
put_account_alone(L, id, account) == [L EXCEPT !.accounts = (id :> account)]

\* Ledger::accounts with the account of `id` replaced (Entry::get_mut) or
\* inserted (VacantEntry::insert).
put_account(L, id, account) == [L EXCEPT !.accounts = (id :> account) @@ @]

\* A mutant of process_deposit: the lock of the account is checked before the
\* transaction is recorded.
process_deposit_locked_first(L, transaction) ==
    IF transaction.amount = None
    THEN Ret(L, Err("DepositError", "AmountRequired", <<>>))
    ELSE LET amount == transaction.amount[1] IN
    IF amount < 0
    THEN Ret(L, Err("DepositError", "NegativeDeposit", <<>>))
    ELSE IF transaction.client \in DOMAIN L.accounts
              /\ L.accounts[transaction.client].locked
    THEN Ret(L, Err("DepositError", "AccountLocked", <<>>))
    ELSE LET saved == save_transaction(L, transaction) IN
    IF ~saved.result.ok
    THEN Ret(saved.ledger, Err("DepositError", "DuplicateTx", saved.result.args))
    ELSE LET S == saved.ledger IN
    IF transaction.client \in DOMAIN S.accounts
    THEN Ret(put_account(S, transaction.client,
                         deposit_funds(S.accounts[transaction.client], amount)), Ok)
    ELSE Ret(put_account(S, transaction.client,
                         new_account(transaction.client, amount)), Ok)

\* A mutant of process_deposit: the transaction is recorded before its
\* amount is checked.
process_deposit_recording_first(L, transaction) ==
    LET saved == save_transaction(L, transaction)
        S == saved.ledger IN
    IF ~saved.result.ok
    THEN Ret(S, Err("DepositError", "DuplicateTx", saved.result.args))
    ELSE IF transaction.amount = None
    THEN Ret(S, Err("DepositError", "AmountRequired", <<>>))
    ELSE LET amount == transaction.amount[1] IN
    IF amount < 0
    THEN Ret(S, Err("DepositError", "NegativeDeposit", <<>>))
    ELSE IF transaction.client \in DOMAIN S.accounts
    THEN LET account == S.accounts[transaction.client] IN
         IF account.locked
         THEN Ret(S, Err("DepositError", "AccountLocked", <<>>))
         ELSE Ret(put_account(S, transaction.client, deposit_funds(account, amount)), Ok)
    ELSE Ret(put_account(S, transaction.client,
                         new_account(transaction.client, amount)), Ok)

process_deposit(L, transaction) ==
    IF transaction.amount = None
    THEN Ret(L, Err("DepositError", "AmountRequired", <<>>))
    ELSE LET amount == transaction.amount[1] IN
    IF amount < 0
    THEN Ret(L, Err("DepositError", "NegativeDeposit", <<>>))
    ELSE LET saved == save_transaction(L, transaction) IN
    IF ~saved.result.ok
    THEN Ret(saved.ledger, Err("DepositError", "DuplicateTx", saved.result.args))
    ELSE LET S == saved.ledger IN
    IF transaction.client \in DOMAIN S.accounts
    THEN LET account == S.accounts[transaction.client] IN
         IF account.locked
         THEN Ret(S, Err("DepositError", "AccountLocked", <<>>))
         ELSE Ret(put_account(S, transaction.client, deposit_funds(account, amount)), Ok)
    ELSE Ret(put_account(S, transaction.client,
                         new_account(transaction.client, amount)), Ok)

\* A mutant of insufficient_funds: a withdrawal that empties the account is
\* refused as well.
insufficient_funds_or_exact(account, amount) == account.available - amount <= 0

\* if account.available - amount < 0.0
insufficient_funds(account, amount) == account.available - amount < 0

\* A mutant of process_withdrawal: the funds are checked before the lock.
process_withdrawal_funds_first(L, transaction) ==
    IF transaction.amount = None
    THEN Ret(L, Err("WithdrawalError", "AmountRequired", <<>>))
    ELSE LET amount == transaction.amount[1] IN
    IF amount < 0
    THEN Ret(L, Err("WithdrawalError", "NegativeWithdrawal", <<>>))
    ELSE LET saved == save_transaction(L, transaction) IN
    IF ~saved.result.ok
    THEN Ret(saved.ledger, Err("WithdrawalError", "DuplicateTx", saved.result.args))
    ELSE LET S == saved.ledger IN
    IF transaction.client \in DOMAIN S.accounts
    THEN LET account == S.accounts[transaction.client] IN
         IF insufficient_funds(account, amount)
         THEN Ret(S, Err("WithdrawalError", "InsufficientFunds",
                         <<amount, account.available>>))
         ELSE IF account.locked
         THEN Ret(S, Err("WithdrawalError", "AccountLocked", <<>>))
         ELSE Ret(put_account(S, transaction.client, withdraw_funds(account, amount)), Ok)
    ELSE Ret(S, Err("WithdrawalError", "NoSuchAccount", <<transaction.client>>))

process_withdrawal(L, transaction) ==
    IF transaction.amount = None
    THEN Ret(L, Err("WithdrawalError", "AmountRequired", <<>>))
    ELSE LET amount == transaction.amount[1] IN
    IF amount < 0
    THEN Ret(L, Err("WithdrawalError", "NegativeWithdrawal", <<>>))
    ELSE LET saved == save_transaction(L, transaction) IN
    IF ~saved.result.ok
    THEN Ret(saved.ledger, Err("WithdrawalError", "DuplicateTx", saved.result.args))
    ELSE LET S == saved.ledger IN
    IF transaction.client \in DOMAIN S.accounts
    THEN LET account == S.accounts[transaction.client] IN
         IF account.locked
         THEN Ret(S, Err("WithdrawalError", "AccountLocked", <<>>))
         ELSE IF insufficient_funds(account, amount)
         THEN Ret(S, Err("WithdrawalError", "InsufficientFunds",
                         <<amount, account.available>>))
         ELSE Ret(put_account(S, transaction.client, withdraw_funds(account, amount)), Ok)
    ELSE Ret(S, Err("WithdrawalError", "NoSuchAccount", <<transaction.client>>))

\* A mutant of process_dispute: the funds are held on the account of the
\* client that recorded the transaction, not of the client the Dispute names.
process_dispute_of_owner(L, transaction) ==
    IF transaction.tx \in DOMAIN L.transactions
    THEN LET tx == L.transactions[transaction.tx]
             amount == tx.amount[1]
             entry == get_account_entry(L, tx.client) IN
         IF ~entry.ok
         THEN Ret(L, from_account_error("DisputeError", entry))
         ELSE LET account == L.accounts[tx.client]
                  moved == [account EXCEPT !.available = @ - amount,
                                           !.held = @ + amount]
                  A == put_account(L, tx.client, moved) IN
              Ret([A EXCEPT !.disputed_transactions = @ \cup {transaction.tx}], Ok)
    ELSE Ret(L, Ok)

\* A mutant of process_dispute: an id that was never recorded is put under
\* dispute too.
process_dispute_of_anything(L, transaction) ==
    IF transaction.tx \in DOMAIN L.transactions
    THEN LET tx == L.transactions[transaction.tx]
             amount == tx.amount[1]
             entry == get_account_entry(L, transaction.client) IN
         IF ~entry.ok
         THEN Ret(L, from_account_error("DisputeError", entry))
         ELSE LET account == L.accounts[transaction.client]
                  moved == [account EXCEPT !.available = @ - amount,
                                           !.held = @ + amount]
                  A == put_account(L, transaction.client, moved) IN
              Ret([A EXCEPT !.disputed_transactions = @ \cup {transaction.tx}], Ok)
    ELSE Ret([L EXCEPT !.disputed_transactions = @ \cup {transaction.tx}], Ok)

\* A mutant of process_dispute: total is recomputed after the funds are held,
\* as deposit_funds and withdraw_funds do.
process_dispute_recomputing_total(L, transaction) ==
    IF transaction.tx \in DOMAIN L.transactions
    THEN LET tx == L.transactions[transaction.tx]
             amount == tx.amount[1]
             entry == get_account_entry(L, transaction.client) IN
         IF ~entry.ok
         THEN Ret(L, from_account_error("DisputeError", entry))
         ELSE LET account == L.accounts[transaction.client]
                  moved == [account EXCEPT !.available = @ - amount,
                                           !.held = @ + amount]
                  totalled == [moved EXCEPT !.total = calculate_total(moved)]
                  A == put_account(L, transaction.client, totalled) IN
              Ret([A EXCEPT !.disputed_transactions = @ \cup {transaction.tx}], Ok)
    ELSE Ret(L, Ok)

\* A mutant of process_dispute: the account is looked up before the history.
process_dispute_account_first(L, transaction) ==
    LET entry == get_account_entry(L, transaction.client) IN
    IF ~entry.ok
    THEN Ret(L, from_account_error("DisputeError", entry))
    ELSE IF transaction.tx \in DOMAIN L.transactions
    THEN LET amount == L.transactions[transaction.tx].amount[1]
             account == L.accounts[transaction.client]
             moved == [account EXCEPT !.available = @ - amount,
                                      !.held = @ + amount]
             A == put_account(L, transaction.client, moved) IN
         Ret([A EXCEPT !.disputed_transactions = @ \cup {transaction.tx}], Ok)
    ELSE Ret(L, Ok)

process_dispute(L, transaction) ==
    IF transaction.tx \in DOMAIN L.transactions
    THEN LET tx == L.transactions[transaction.tx] IN
         IF tx.amount = None
         THEN Ret(L, Err("DisputeError", "AmountRequired", <<>>))
         ELSE LET amount == tx.amount[1]
                  entry == get_account_entry(L, transaction.client) IN
         IF ~entry.ok
         THEN Ret(L, from_account_error("DisputeError", entry))
         ELSE LET account == L.accounts[transaction.client]
                  moved == [account EXCEPT !.available = @ - amount,
                                           !.held = @ + amount]
                  A == put_account(L, transaction.client, moved) IN
              Ret([A EXCEPT !.disputed_transactions = @ \cup {transaction.tx}], Ok)
    ELSE Ret(L, Ok)

\* A mutant of process_resolve: the dispute is closed before the account is
\* looked up, so a Resolve that fails has closed it.
process_resolve_closing_first(L, transaction) ==
    IF transaction.tx \in DOMAIN L.transactions
         /\ transaction.tx \in L.disputed_transactions
    THEN LET amount == L.transactions[transaction.tx].amount[1]
             C == [L EXCEPT !.disputed_transactions = @ \ {transaction.tx}]
             entry == get_account_entry(C, transaction.client) IN
         IF ~entry.ok
         THEN Ret(C, from_account_error("ResolveError", entry))
         ELSE LET account == C.accounts[transaction.client]
                  moved == [account EXCEPT !.available = @ + amount,
                                           !.held = @ - amount] IN
              Ret(put_account(C, transaction.client, moved), Ok)
    ELSE Ret(L, Ok)

\* A mutant of process_resolve: the funds are released but the dispute
\* stays open.
process_resolve_keeping_dispute(L, transaction) ==
    IF transaction.tx \in DOMAIN L.transactions
         /\ transaction.tx \in L.disputed_transactions
    THEN LET amount == L.transactions[transaction.tx].amount[1]
             entry == get_account_entry(L, transaction.client) IN
         IF ~entry.ok
         THEN Ret(L, from_account_error("ResolveError", entry))
         ELSE LET account == L.accounts[transaction.client]
                  moved == [account EXCEPT !.available = @ + amount,
                                           !.held = @ - amount] IN
              Ret(put_account(L, transaction.client, moved), Ok)
    ELSE Ret(L, Ok)

process_resolve(L, transaction) ==
    IF transaction.tx \in DOMAIN L.transactions
    THEN IF transaction.tx \notin L.disputed_transactions
         THEN Ret(L, Ok)
         ELSE LET tx == L.transactions[transaction.tx] IN
         IF tx.amount = None
         THEN Ret(L, Err("ResolveError", "AmountRequired", <<>>))
         ELSE LET amount == tx.amount[1]
                  entry == get_account_entry(L, transaction.client) IN
         IF ~entry.ok
         THEN Ret(L, from_account_error("ResolveError", entry))
         ELSE LET account == L.accounts[transaction.client]
                  moved == [account EXCEPT !.available = @ + amount,
                                           !.held = @ - amount]
                  A == put_account(L, transaction.client, moved) IN
              Ret([A EXCEPT !.disputed_transactions = @ \ {transaction.tx}], Ok)
    ELSE Ret(L, Ok)

\* A mutant of process_chargeback: any recorded transaction is charged back,
\* disputed or not.
process_chargeback_of_any_recorded(L, transaction) ==
    IF transaction.tx \in DOMAIN L.transactions
    THEN LET amount == L.transactions[transaction.tx].amount[1]
             entry == get_account_entry(L, transaction.client) IN
         IF ~entry.ok
         THEN Ret(L, from_account_error("ChargebackError", entry))
         ELSE LET account == L.accounts[transaction.client]
                  less == [account EXCEPT !.held = @ - amount]
                  charged == [less EXCEPT !.total = less.available - less.held] IN
              Ret(put_account(L, transaction.client, lock(charged)), Ok)
    ELSE Ret(L, Ok)

process_chargeback(L, transaction) ==
    IF transaction.tx \in DOMAIN L.transactions
    THEN IF transaction.tx \notin L.disputed_transactions
         THEN Ret(L, Ok)
         ELSE LET tx == L.transactions[transaction.tx] IN
         IF tx.amount = None
         THEN Ret(L, Err("ChargebackError", "AmountRequired", <<>>))
         ELSE LET amount == tx.amount[1]
                  entry == get_account_entry(L, transaction.client) IN
         IF ~entry.ok
         THEN Ret(L, from_account_error("ChargebackError", entry))
         ELSE LET account == L.accounts[transaction.client]
                  less == [account EXCEPT !.held = @ - amount]
                  charged == [less EXCEPT !.total = less.available - less.held] IN
              Ret(put_account(L, transaction.client, lock(charged)), Ok)
    ELSE Ret(L, Ok)

\* What process_transaction leaves behind: the ledger, the Result of the
\* handler it dispatched to (returned) and the Result it gives its caller.
Outcome(L, returned, result) == [ledger |-> L, returned |-> returned, result |-> result]

\* A mutant of process_transaction: every error of process_withdrawal is
\* handed to the caller.
process_transaction_strict(L, transaction) ==
    LET r == CASE transaction.type = "Deposit" -> process_deposit(L, transaction)
               [] transaction.type = "Withdrawal" -> process_withdrawal(L, transaction)
               [] transaction.type = "Dispute" -> process_dispute(L, transaction)
               [] transaction.type = "Resolve" -> process_resolve(L, transaction)
               [] transaction.type = "Chargeback" -> process_chargeback(L, transaction)
    IN Outcome(r.ledger, r.result, r.result)

\* A mutant of process_transaction: every error of process_withdrawal is
\* logged and recovered, not only InsufficientFunds.
process_transaction_lenient(L, transaction) ==
    LET r == CASE transaction.type = "Deposit" -> process_deposit(L, transaction)
               [] transaction.type = "Withdrawal" -> process_withdrawal(L, transaction)
               [] transaction.type = "Dispute" -> process_dispute(L, transaction)
               [] transaction.type = "Resolve" -> process_resolve(L, transaction)
               [] transaction.type = "Chargeback" -> process_chargeback(L, transaction)
    IN IF transaction.type = "Withdrawal"
       THEN Outcome(r.ledger, r.result, Ok)
       ELSE Outcome(r.ledger, r.result, r.result)

process_transaction(L, transaction) ==
    CASE transaction.type = "Deposit" ->
           LET r == process_deposit(L, transaction) IN
           Outcome(r.ledger, r.result, r.result)
      [] transaction.type = "Withdrawal" ->
           LET r == process_withdrawal(L, transaction) IN
           IF ~r.result.ok /\ r.result.kind = "InsufficientFunds"
           THEN Outcome(r.ledger, r.result, Ok)
           ELSE Outcome(r.ledger, r.result, r.result)
      [] transaction.type = "Dispute" ->
           LET r == process_dispute(L, transaction) IN
           Outcome(r.ledger, r.result, r.result)
      [] transaction.type = "Resolve" ->
           LET r == process_resolve(L, transaction) IN
           Outcome(r.ledger, r.result, r.result)
      [] transaction.type = "Chargeback" ->
           LET r == process_chargeback(L, transaction) IN
           Outcome(r.ledger, r.result, r.result)

(***************************************************************************)
(* The state machine.  `last` is the latest call of process_transaction:   *)
(* its argument, what the handler returned, what the caller got, and the   *)
(* account of the client it names as it was before the call.               *)
(* `steps` counts the calls.  `run` is "calls" while a caller drives the   *)
(* ledger by process_transaction directly (as the unit tests do), and the  *)
(* position of Ledger::try_from otherwise.  `input` is the rows of the     *)
(* file, or the argument of a function, where a specification fixes them   *)
(* beforehand, and `output` what the program has produced from them; both  *)
(* stay empty in the specifications of the calls.                          *)
(***************************************************************************)
TheLedger == Ledger(accounts, transactions, disputed_transactions)

\* Ledger::default()
EmptyLedger == Ledger(<<>>, <<>>, {})

\* self.accounts.get(&id) as an Option: Some(account) or None
AccountOf(a, id) == IF id \in DOMAIN a THEN Some(a[id]) ELSE None

Call(transaction) ==
    /\ steps < MaxSteps
    /\ \E out \in {process_transaction(TheLedger, transaction)} :
          /\ accounts' = out.ledger.accounts
          /\ transactions' = out.ledger.transactions
          /\ disputed_transactions' = out.ledger.disputed_transactions
          /\ last' = [tx |-> transaction, returned |-> out.returned,
                      result |-> out.result,
                      before |-> AccountOf(accounts, transaction.client)]
    /\ steps' = steps + 1
    /\ UNCHANGED <<input, output>>

OfType(type) == {t \in Transactions : t.type = type}

Deposit == \E t \in OfType("Deposit") : run = "calls" /\ Call(t) /\ UNCHANGED run
Withdrawal == \E t \in OfType("Withdrawal") : run = "calls" /\ Call(t) /\ UNCHANGED run
Dispute == \E t \in OfType("Dispute") : run = "calls" /\ Call(t) /\ UNCHANGED run
Resolve == \E t \in OfType("Resolve") : run = "calls" /\ Call(t) /\ UNCHANGED run
Chargeback == \E t \in OfType("Chargeback") : run = "calls" /\ Call(t) /\ UNCHANGED run

Init ==
    /\ accounts = EmptyLedger.accounts
    /\ transactions = EmptyLedger.transactions
    /\ disputed_transactions = EmptyLedger.disputed_transactions
    /\ last = [tx |-> NoTransaction, returned |-> Ok, result |-> Ok,
               before |-> None]
    /\ steps = 0
    /\ run = "calls"
    /\ input = <<>>
    /\ output = <<>>

Next == Deposit \/ Withdrawal \/ Dispute \/ Resolve \/ Chargeback

Spec == Init /\ [][Next]_vars

(***************************************************************************)
(* Ledger::try_from: the rows of the file are decoded one at a time and    *)
(* processed in order; the first error, of the decoder or of               *)
(* process_transaction, is returned and ends the loop.                     *)
(***************************************************************************)
\* for tx in iter.deserialize() { let tx = tx?; ledger.process_transaction(&tx)?; }
TryFromRow ==
    \E t \in Transactions :
        /\ run = "reading"
        /\ Call(t)
        /\ run' = IF last'.result.ok THEN "reading" ELSE "failed"

\* let tx: Transaction = tx?;  a row that does not decode
TryFromBadRow ==
    /\ run = "reading"
    /\ steps < MaxSteps
    /\ last' = [tx |-> NoTransaction, returned |-> Ok,
                result |-> Err("csv::Error", "Deserialize", <<>>),
                before |-> None]
    /\ steps' = steps + 1
    /\ run' = "failed"
    /\ UNCHANGED <<accounts, transactions, disputed_transactions, input, output>>

\* Ok(ledger): the iterator is exhausted
TryFromEnd ==
    /\ run = "reading"
    /\ run' = "done"
    /\ UNCHANGED <<accounts, transactions, disputed_transactions, last, steps,
                   input, output>>

RunInit ==
    /\ accounts = EmptyLedger.accounts
    /\ transactions = EmptyLedger.transactions
    /\ disputed_transactions = EmptyLedger.disputed_transactions
    /\ last = [tx |-> NoTransaction, returned |-> Ok, result |-> Ok,
               before |-> None]
    /\ steps = 0
    /\ run = "reading"
    /\ input = <<>>
    /\ output = <<>>

RunNext == TryFromRow \/ TryFromBadRow \/ TryFromEnd

RunSpec == RunInit /\ [][RunNext]_vars

(***************************************************************************)
(* A caller that keeps to one client and has three transaction ids to      *)
(* spend, as the unit tests of one account do: room for a deposit and a    *)
(* withdrawal on an account that an earlier deposit created.               *)
(***************************************************************************)
SoloTxIds == {1, 2, 3}

SoloTransactions ==
    {Transaction(type, 1, tx, Some(v)) :
        type \in {"Deposit", "Withdrawal"}, tx \in SoloTxIds,
        v \in {a \in AmountValues : a >= 0}}
    \cup {Transaction(type, 1, tx, None) :
        type \in {"Dispute", "Resolve", "Chargeback"}, tx \in SoloTxIds}

SoloCall == \E t \in SoloTransactions : run = "calls" /\ Call(t) /\ UNCHANGED run

SoloSpec == Init /\ [][SoloCall]_vars

(***************************************************************************)
(* Ledger::try_from on a file whose rows are fixed beforehand: `input` is  *)
(* the rows in file order and `steps` the number of rows consumed.  A row  *)
(* that does not decode is NoTransaction.  The rows name one client.       *)
(***************************************************************************)
FileRows == {t \in Transactions : t.client = 1} \cup {NoTransaction}

Files == UNION {[1..n -> FileRows] : n \in 0..MaxRows}

\* A mutant of Propagate: the error of a row is dropped and the loop goes on.
Propagate_ignoring(result) == "reading"

\* ledger.process_transaction(&tx)?;  the `?` returns the error from try_from
Propagate(result) == IF result.ok THEN "reading" ELSE "failed"

\* let tx = tx?; ledger.process_transaction(&tx)?;  on the next row
ReadRow ==
    /\ run = "reading"
    /\ steps < Len(input)
    /\ input[steps + 1] # NoTransaction
    /\ Call(input[steps + 1])
    /\ run' = Propagate(last'.result)

\* let tx: Transaction = tx?;  the next row does not decode
ReadBadRow ==
    /\ run = "reading"
    /\ steps < Len(input)
    /\ input[steps + 1] = NoTransaction
    /\ last' = [tx |-> NoTransaction, returned |-> Ok,
                result |-> Err("csv::Error", "Deserialize", <<>>),
                before |-> None]
    /\ steps' = steps + 1
    /\ run' = "failed"
    /\ UNCHANGED <<accounts, transactions, disputed_transactions, input, output>>

\* Ok(ledger): no row is left
ReadEnd ==
    /\ run = "reading"
    /\ steps = Len(input)
    /\ run' = "done"
    /\ UNCHANGED <<accounts, transactions, disputed_transactions, last, steps,
                   input, output>>

FileInit ==
    /\ accounts = EmptyLedger.accounts
    /\ transactions = EmptyLedger.transactions
    /\ disputed_transactions = EmptyLedger.disputed_transactions
    /\ last = [tx |-> NoTransaction, returned |-> Ok, result |-> Ok,
               before |-> None]
    /\ steps = 0
    /\ run = "reading"
    /\ input \in Files
    /\ output = <<>>

FileNext == ReadRow \/ ReadBadRow \/ ReadEnd

FileSpec == FileInit /\ [][FileNext]_vars

(***************************************************************************)
(* Account::round applied over and over to a value: `input` holds the      *)
(* value given first, `output` what the latest call returned and `steps`   *)
(* the number of calls.  No ledger is involved.                            *)
(***************************************************************************)
Values == (-3 * Fine)..(3 * Fine)

\* Account::round(value), on the value given or on what it returned before
ApplyRound ==
    /\ run = "rounding"
    /\ steps < MaxSteps
    /\ output' = <<round(IF steps = 0 THEN input[1] ELSE output[1])>>
    /\ steps' = steps + 1
    /\ UNCHANGED <<accounts, transactions, disputed_transactions, last, run, input>>

RoundInit ==
    /\ accounts = EmptyLedger.accounts
    /\ transactions = EmptyLedger.transactions
    /\ disputed_transactions = EmptyLedger.disputed_transactions
    /\ last = [tx |-> NoTransaction, returned |-> Ok, result |-> Ok,
               before |-> None]
    /\ steps = 0
    /\ run = "rounding"
    /\ input \in {<<v>> : v \in Values}
    /\ output = <<>>

RoundSpec == RoundInit /\ [][ApplyRound]_vars

(***************************************************************************)
(* The program (src/bin/main.rs): Ledger::try_from on the file, then       *)
(* generate_account_statements on the ledger it returned.  `output` is     *)
(* the CSV text: the header, and the records in the order written.         *)
(***************************************************************************)
\* An f64 as serde writes it: the decimal digits of the value, as a sign, an
\* integer part and a fractional part (a numerator over Scale).
FormatF64(value) ==
    [negative |-> value < 0,
     integer |-> Abs(value) \div Scale,
     fraction |-> Abs(value) % Scale]

\* #[derive(Serialize)] struct Account: one CSV record
Serialize(account) ==
    [client |-> account.client,
     available |-> FormatF64(account.available),
     held |-> FormatF64(account.held),
     total |-> FormatF64(account.total),
     locked |-> IF account.locked THEN "true" ELSE "false"]

\* self.accounts.values(): the clients in an order the HashMap chooses
Orders(a) ==
    {order \in [1..Cardinality(DOMAIN a) -> DOMAIN a] :
        \A i, j \in DOMAIN order : order[i] = order[j] => i = j}

\* A mutant of generate_account_statements: locked accounts are left out.
generate_account_statements_of_unlocked(L, order) ==
    LET open == SelectSeq(order, LAMBDA c : ~L.accounts[c].locked) IN
    [header |-> IF open = <<>> THEN <<>>
                ELSE <<"client", "available", "held", "total", "locked">>,
     records |-> [i \in DOMAIN open |-> Serialize(L.accounts[open[i]])]]

\* for account in self.accounts.values() { wtr.serialize(account)?; }
\* The writer puts the header before the first record it serializes.
generate_account_statements(L, order) ==
    [header |-> IF order = <<>> THEN <<>>
                ELSE <<"client", "available", "held", "total", "locked">>,
     records |-> [i \in DOMAIN order |-> Serialize(L.accounts[order[i]])]]

\* let output = match ledger.generate_account_statements() { Ok(output) => .. }
GenerateStatements ==
    /\ run = "done"
    /\ \E order \in Orders(accounts) :
          output' = generate_account_statements(TheLedger, order)
    /\ run' = "reported"
    /\ UNCHANGED <<accounts, transactions, disputed_transactions, last, steps,
                   input>>

MainNext == RunNext \/ GenerateStatements

MainSpec == RunInit /\ [][MainNext]_vars

(***************************************************************************)
(* Vocabulary of the claims.  In an action formula the unprimed variables  *)
(* are the ledger before a call and last' is the call.                     *)
(***************************************************************************)
\* v is `a` rounded to four decimal digits: a whole number of 1/PRECISION
\* and no further from `a` than half of one.
RoundedTo4(v, a) == v % Fine = 0 /\ 2 * Abs(v - a) <= Fine

\* This step is a call of process_transaction.
Called == steps' = steps + 1 /\ last'.tx.type \in TransactionType

CalledWith(types) == Called /\ last'.tx.type \in types

HasAmount(t) == t.amount # None

ValidAmount(t) == HasAmount(t) /\ t.amount[1] >= 0

Fresh(t) == t.tx \notin DOMAIN transactions

HasAccount(c) == c \in DOMAIN accounts

Unlocked(c) == HasAccount(c) /\ ~accounts[c].locked

Locked(c) == HasAccount(c) /\ accounts[c].locked

LedgerUnchanged == UNCHANGED <<accounts, transactions, disputed_transactions>>

\* The four fields of the account of client c are what they were.
AccountUnchanged(c) ==
    /\ c \in DOMAIN accounts'
    /\ accounts'[c].available = accounts[c].available
    /\ accounts'[c].held = accounts[c].held
    /\ accounts'[c].total = accounts[c].total
    /\ accounts'[c].locked = accounts[c].locked

\* `last` is a call that has been made.
Made == steps > 0 /\ last.tx.type \in TransactionType

(***************************************************************************)
(* C1.  In every state reachable by calls of process_transaction every     *)
(* account has total = available + held.                                   *)
(* The code recomputes total as available - held (calculate_total), so a   *)
(* deposit or withdrawal while funds are held breaks it.                   *)
(***************************************************************************)
C1_TotalIsAvailablePlusHeld ==
    \A c \in DOMAIN accounts :
        accounts[c].total = accounts[c].available + accounts[c].held

(***************************************************************************)
(* C2, as stated.  A Deposit or Withdrawal whose tx id is already a key of *)
(* the history (whoever recorded it) fails with DuplicateTx(id) and leaves *)
(* accounts, history and disputed-set unchanged.                           *)
(***************************************************************************)
C2_DuplicateFailsWithDuplicateTx ==
    [][(CalledWith({"Deposit", "Withdrawal"}) /\ ~Fresh(last'.tx))
         => /\ ~last'.result.ok
            /\ last'.result.kind = "DuplicateTx"
            /\ last'.result.args = <<last'.tx.tx>>
            /\ LedgerUnchanged]_vars

(***************************************************************************)
(* C2, amended.  A Deposit or Withdrawal whose tx id is already a key of   *)
(* the history leaves accounts, history and disputed-set unchanged and is  *)
(* returned as an error; the error is DuplicateTx(id) when the amount is   *)
(* present and non-negative, and the amount's error (AmountRequired,       *)
(* NegativeDeposit, NegativeWithdrawal), which is checked first, otherwise.*)
(***************************************************************************)
C2_DuplicateLeavesLedgerUnchanged ==
    [][(CalledWith({"Deposit", "Withdrawal"}) /\ ~Fresh(last'.tx))
         => /\ ~last'.result.ok
            /\ LedgerUnchanged
            /\ last'.result = last'.returned
            /\ IF ValidAmount(last'.tx)
               THEN /\ last'.result.kind = "DuplicateTx"
                    /\ last'.result.args = <<last'.tx.tx>>
               ELSE IF HasAmount(last'.tx)
               THEN last'.result.kind \in {"NegativeDeposit", "NegativeWithdrawal"}
               ELSE last'.result.kind = "AmountRequired"]_vars

\* A duplicate id was refused for a client that has no account: the id was
\* recorded by the other client, and no account was created.
C2_Witness ==
    /\ Made
    /\ last.tx.type \in {"Deposit", "Withdrawal"}
    /\ last.result.kind = "DuplicateTx"
    /\ ~HasAccount(last.tx.client)
    /\ transactions[last.tx.tx].client # last.tx.client

(***************************************************************************)
(* C3.  Locked is terminal: once an account is locked, every later step    *)
(* leaves its available, held, total and locked fields as they are.        *)
(***************************************************************************)
C3_LockedIsTerminal ==
    [][\A c \in DOMAIN accounts : accounts[c].locked => AccountUnchanged(c)]_vars

\* A deposit with a fresh id and a valid amount was attempted on a locked
\* account.
C3_Witness ==
    /\ Made
    /\ last.tx.type = "Deposit"
    /\ Locked(last.tx.client)
    /\ last.result.kind = "AccountLocked"

(***************************************************************************)
(* C4, as stated.  Once an account is locked, every Deposit, Withdrawal,   *)
(* Dispute, Resolve and Chargeback that names its client is rejected with  *)
(* an error.                                                               *)
(***************************************************************************)
C4_LockedRejectsEveryKind ==
    [][(Called /\ Locked(last'.tx.client)) => ~last'.result.ok]_vars

\* The Dispute, Resolve or Chargeback t gets as far as looking up the account.
ReachesAccount(t) ==
    /\ t.tx \in DOMAIN transactions
    /\ t.type \in {"Resolve", "Chargeback"} => t.tx \in disputed_transactions

(***************************************************************************)
(* C4, amended.  Once an account is locked, every Deposit and Withdrawal   *)
(* that names its client is rejected with an error, and so is every        *)
(* Dispute whose referenced id is in the history and every Resolve or      *)
(* Chargeback whose referenced id is in the disputed-set (AccountLocked);  *)
(* a Dispute, Resolve or Chargeback whose referenced id is not (the ones   *)
(* the engine ignores) returns Ok and changes nothing.                     *)
(***************************************************************************)
C4_LockedRejectsWhatReachesIt ==
    [][(Called /\ Locked(last'.tx.client))
         => IF last'.tx.type \in {"Deposit", "Withdrawal"}
            THEN ~last'.result.ok
            ELSE IF ReachesAccount(last'.tx)
            THEN ~last'.result.ok /\ last'.result.kind = "AccountLocked"
            ELSE last'.result = Ok /\ LedgerUnchanged]_vars

\* A Chargeback of an id in the disputed-set was refused because the account
\* it names is locked.
C4_Witness ==
    /\ Made
    /\ last.tx.type = "Chargeback"
    /\ Locked(last.tx.client)
    /\ last.tx.tx \in disputed_transactions
    /\ last.result.kind = "AccountLocked"

C7_InsufficientFundsIsReturned ==
    [][(/\ CalledWith({"Withdrawal"})
        /\ ValidAmount(last'.tx)
        /\ Fresh(last'.tx)
        /\ Unlocked(last'.tx.client)
        /\ last'.tx.amount[1] > accounts[last'.tx.client].available)
         => /\ ~last'.result.ok
            /\ last'.result.kind = "InsufficientFunds"
            /\ last'.result.args =
                   <<last'.tx.amount[1], accounts[last'.tx.client].available>>]_vars

(***************************************************************************)
(* C8.  A Deposit with a present non-negative amount and a fresh tx id for *)
(* a client that has no account succeeds and creates exactly one account,  *)
(* that client's, with available = total = the amount rounded to four      *)
(* decimals, held = 0 and locked = false; the other accounts stay.         *)
(***************************************************************************)
C8_FirstDepositCreatesAccount ==
    [][(/\ CalledWith({"Deposit"})
        /\ ValidAmount(last'.tx)
        /\ Fresh(last'.tx)
        /\ ~HasAccount(last'.tx.client))
         => LET c == last'.tx.client IN
            /\ last'.result = Ok
            /\ DOMAIN accounts' = DOMAIN accounts \cup {c}
            /\ \A d \in DOMAIN accounts : accounts'[d] = accounts[d]
            /\ accounts'[c].client = c
            /\ RoundedTo4(accounts'[c].available, last'.tx.amount[1])
            /\ accounts'[c].total = accounts'[c].available
            /\ accounts'[c].held = 0
            /\ accounts'[c].locked = FALSE]_vars

\* The only transaction on record is a deposit of an amount with more than
\* four decimals, which has just created the account of its client.
C8_Witness ==
    /\ Made
    /\ last.tx.type = "Deposit"
    /\ last.result = Ok
    /\ DOMAIN transactions = {last.tx.tx}
    /\ DOMAIN accounts = {last.tx.client}
    /\ last.tx.amount[1] % Fine # 0
    /\ accounts[last.tx.client].available # last.tx.amount[1]

\* The amount x and the balances of client c are whole numbers of
\* 1/PRECISION, so that no rounding takes part in the sums below.
WholeCents(c, x) ==
    /\ x % Fine = 0
    /\ accounts[c].available % Fine = 0
    /\ accounts[c].held % Fine = 0
    /\ accounts[c].total % Fine = 0

(***************************************************************************)
(* C9.  A successful Deposit of amount x into an existing unlocked         *)
(* account, funds held or not, increases available by x and total by x and *)
(* leaves held and locked unchanged.  Stated for amounts and balances of   *)
(* at most four decimals.  The code sets total to available - held.        *)
(***************************************************************************)
C9_DepositAddsToAvailableAndTotal ==
    [][(/\ CalledWith({"Deposit"})
        /\ last'.result = Ok
        /\ Unlocked(last'.tx.client)
        /\ WholeCents(last'.tx.client, last'.tx.amount[1]))
         => LET c == last'.tx.client
                x == last'.tx.amount[1] IN
            /\ accounts'[c].available = accounts[c].available + x
            /\ accounts'[c].total = accounts[c].total + x
            /\ accounts'[c].held = accounts[c].held
            /\ accounts'[c].locked = accounts[c].locked]_vars

(***************************************************************************)
(* C10.  A successful Withdrawal of amount x (x <= available, account      *)
(* unlocked, fresh id), funds held or not, decreases available by x and    *)
(* total by x and leaves held and locked unchanged.  Stated for amounts    *)
(* and balances of at most four decimals.  The code sets total to          *)
(* available - held.                                                       *)
(***************************************************************************)
C10_WithdrawalTakesFromAvailableAndTotal ==
    [][(/\ CalledWith({"Withdrawal"})
        /\ last'.returned = Ok
        /\ Unlocked(last'.tx.client)
        /\ WholeCents(last'.tx.client, last'.tx.amount[1]))
         => LET c == last'.tx.client
                x == last'.tx.amount[1] IN
            /\ accounts'[c].available = accounts[c].available - x
            /\ accounts'[c].total = accounts[c].total - x
            /\ accounts'[c].held = accounts[c].held
            /\ accounts'[c].locked = accounts[c].locked]_vars

(***************************************************************************)
(* C11.  For an existing unlocked account, a successful Deposit of x       *)
(* immediately followed by a successful Withdrawal of the same x brings    *)
(* available and total back to what they were before the deposit.  Stated  *)
(* for amounts and balances of at most four decimals.  In the step of the  *)
(* withdrawal `last` is the deposit, and last.before the account before    *)
(* it.  With funds held the code leaves total at available - held.         *)
(***************************************************************************)
C11_DepositThenWithdrawalConserves ==
    [][(/\ CalledWith({"Withdrawal"})
        /\ last'.returned = Ok
        /\ last.tx.type = "Deposit"
        /\ last.returned = Ok
        /\ last.tx.client = last'.tx.client
        /\ last.tx.amount = last'.tx.amount
        /\ last.before # None
        /\ ~last.before[1].locked
        /\ last.tx.amount[1] % Fine = 0
        /\ last.before[1].available % Fine = 0
        /\ last.before[1].held % Fine = 0
        /\ last.before[1].total % Fine = 0)
         => LET c == last'.tx.client IN
            /\ accounts'[c].available = last.before[1].available
            /\ accounts'[c].total = last.before[1].total]_vars

\* The amount of the recorded transaction that t references.
ReferencedAmount(t) == transactions[t.tx].amount[1]

\* t references a transaction of the history with its id.
Recorded(t) == t.tx \in DOMAIN transactions

\* t references a transaction whose dispute is open.
Disputed(t) == t.tx \in disputed_transactions

(***************************************************************************)
(* C12.  A Dispute that references a tx id of the history and names an     *)
(* existing unlocked account returns Ok, takes the referenced amount from  *)
(* that account's available, adds it to held, leaves total and locked as   *)
(* they were, and puts the id in the disputed-set.                         *)
(***************************************************************************)
C12_DisputeHoldsTheAmount ==
    [][(/\ CalledWith({"Dispute"})
        /\ Recorded(last'.tx)
        /\ Unlocked(last'.tx.client))
         => LET c == last'.tx.client
                x == ReferencedAmount(last'.tx) IN
            /\ last'.result = Ok
            /\ c \in DOMAIN accounts'
            /\ accounts'[c].available = accounts[c].available - x
            /\ accounts'[c].held = accounts[c].held + x
            /\ accounts'[c].total = accounts[c].total
            /\ accounts'[c].locked = accounts[c].locked
            /\ last'.tx.tx \in disputed_transactions']_vars

\* A dispute has held a positive amount of an account.
C12_Witness ==
    /\ Made
    /\ last.tx.type = "Dispute"
    /\ last.result = Ok
    /\ last.tx.tx \in disputed_transactions
    /\ last.before # None
    /\ accounts[last.tx.client].held > last.before[1].held
    /\ accounts[last.tx.client].available < last.before[1].available

(***************************************************************************)
(* C13.  A Dispute that references a tx id absent from the history returns *)
(* Ok and leaves accounts, history and disputed-set unchanged, whether the *)
(* client it names is unknown, known or locked.                            *)
(***************************************************************************)
C13_DisputeOfUnknownIdIsNoOp ==
    [][(/\ CalledWith({"Dispute"})
        /\ ~Recorded(last'.tx))
         => (last'.result = Ok /\ last'.returned = Ok /\ LedgerUnchanged)]_vars

\* A dispute of an unrecorded id that names a locked client has returned Ok.
C13_Witness ==
    /\ Made
    /\ last.tx.type = "Dispute"
    /\ last.tx.tx \notin DOMAIN transactions
    /\ Locked(last.tx.client)
    /\ last.result = Ok

(***************************************************************************)
(* C14.  A Resolve that references a tx id of the disputed-set and names   *)
(* an existing unlocked account returns Ok, adds the referenced amount to  *)
(* available, takes it from held, leaves total and locked as they were and *)
(* removes the id from the disputed-set.  When the call before it was the  *)
(* Dispute of that id by that client, the account is again what it was     *)
(* before the dispute (last.before): after Deposit, Dispute, Resolve of    *)
(* one transaction that is the account right after the deposit.            *)
(***************************************************************************)
C14_ResolveReleasesTheAmount ==
    [][(/\ CalledWith({"Resolve"})
        /\ Recorded(last'.tx)
        /\ Disputed(last'.tx)
        /\ Unlocked(last'.tx.client))
         => LET c == last'.tx.client
                x == ReferencedAmount(last'.tx) IN
            /\ last'.result = Ok
            /\ c \in DOMAIN accounts'
            /\ accounts'[c].available = accounts[c].available + x
            /\ accounts'[c].held = accounts[c].held - x
            /\ accounts'[c].total = accounts[c].total
            /\ accounts'[c].locked = accounts[c].locked
            /\ last'.tx.tx \notin disputed_transactions'
            /\ (/\ last.tx.type = "Dispute"
                /\ last.result = Ok
                /\ last.tx.tx = last'.tx.tx
                /\ last.tx.client = c
                /\ last.before # None)
                 => accounts'[c] = last.before[1]]_vars

\* Three calls were made and the third was a Resolve that released a
\* deposit's amount: the calls were the Deposit, its Dispute and its Resolve.
C14_Witness ==
    /\ steps = 3
    /\ last.tx.type = "Resolve"
    /\ last.result = Ok
    /\ last.tx.tx \in DOMAIN transactions
    /\ transactions[last.tx.tx].type = "Deposit"
    /\ last.tx.tx \notin disputed_transactions
    /\ last.before # None
    /\ last.before[1].held > accounts[last.tx.client].held
    /\ accounts[last.tx.client].held = 0
    /\ accounts[last.tx.client].available = accounts[last.tx.client].total

(***************************************************************************)
(* C15.  A Resolve or Chargeback whose tx id is absent from the history,   *)
(* or recorded but not in the disputed-set, returns Ok and leaves          *)
(* accounts, history and disputed-set unchanged, whether the client it     *)
(* names is unknown, known or locked.                                      *)
(***************************************************************************)
C15_ResolveOrChargebackOfUndisputedIsNoOp ==
    [][(/\ CalledWith({"Resolve", "Chargeback"})
        /\ (~Recorded(last'.tx) \/ ~Disputed(last'.tx)))
         => (last'.result = Ok /\ last'.returned = Ok /\ LedgerUnchanged)]_vars

\* A chargeback of a recorded, undisputed id that names a locked client has
\* returned Ok.
C15_Witness ==
    /\ Made
    /\ last.tx.type = "Chargeback"
    /\ last.tx.tx \in DOMAIN transactions
    /\ last.tx.tx \notin disputed_transactions
    /\ Locked(last.tx.client)
    /\ last.result = Ok

(***************************************************************************)
(* C16.  A Chargeback that references a tx id of the disputed-set and      *)
(* names an existing unlocked account, other disputes of the client open   *)
(* or not, returns Ok, takes the referenced amount from held and from      *)
(* total, leaves available as it was and locks the account.  The code      *)
(* sets total to available - held, which is total - amount only when the   *)
(* amount charged back was all that was held.  Stated for a transaction    *)
(* that the named client recorded and an account that holds at least its   *)
(* amount, whose available is not negative and whose total is              *)
(* available + held, so that the failure is the chargeback's own.          *)
(***************************************************************************)
C16_ChargebackTakesFromHeldAndTotal ==
    [][(/\ CalledWith({"Chargeback"})
        /\ Recorded(last'.tx)
        /\ Disputed(last'.tx)
        /\ Unlocked(last'.tx.client)
        /\ transactions[last'.tx.tx].client = last'.tx.client
        /\ accounts[last'.tx.client].available >= 0
        /\ accounts[last'.tx.client].held >= ReferencedAmount(last'.tx)
        /\ accounts[last'.tx.client].total =
              accounts[last'.tx.client].available + accounts[last'.tx.client].held)
         => LET c == last'.tx.client
                x == ReferencedAmount(last'.tx) IN
            /\ last'.result = Ok
            /\ c \in DOMAIN accounts'
            /\ accounts'[c].held = accounts[c].held - x
            /\ accounts'[c].total = accounts[c].total - x
            /\ accounts'[c].available = accounts[c].available
            /\ accounts'[c].locked]_vars

\* The call last' of a Dispute, Resolve or Chargeback took effect: it found
\* its tx id in the stage it needs and returned Ok.
Effective ==
    /\ CalledWith({"Dispute", "Resolve", "Chargeback"})
    /\ last'.result = Ok
    /\ Recorded(last'.tx)
    /\ last'.tx.type \in {"Resolve", "Chargeback"} => Disputed(last'.tx)

(***************************************************************************)
(* C17.  An id is in the disputed-set exactly from a successful Dispute of *)
(* it to the next successful Resolve or Chargeback of it: a call that      *)
(* takes effect as a Dispute of id puts it in, one that takes effect as a  *)
(* Resolve or Chargeback of id takes it out, and any other call leaves it  *)
(* where it was.  The code never takes a charged-back id out.              *)
(***************************************************************************)
C17_DisputedFromDisputeToResolveOrChargeback ==
    [][Called =>
        \A id \in TxIds :
            (id \in disputed_transactions') <=>
                IF Effective /\ last'.tx.tx = id
                THEN last'.tx.type = "Dispute"
                ELSE id \in disputed_transactions]_vars

(***************************************************************************)
(* C18.  A Dispute that references a tx id already in the disputed-set is  *)
(* a no-op: it returns no error and moves no further funds from available  *)
(* to held.  Stated for a named account that exists and is unlocked.  The  *)
(* code does not look at the disputed-set and holds the amount again.      *)
(***************************************************************************)
C18_DisputeOfOpenDisputeIsNoOp ==
    [][(/\ CalledWith({"Dispute"})
        /\ Recorded(last'.tx)
        /\ Disputed(last'.tx)
        /\ Unlocked(last'.tx.client))
         => (last'.result = Ok /\ LedgerUnchanged)]_vars

\* `last` is a Chargeback that took effect: it locked the account it names.
ChargedBack ==
    /\ Made
    /\ last.tx.type = "Chargeback"
    /\ last.result = Ok
    /\ last.before # None
    /\ ~last.before[1].locked
    /\ Locked(last.tx.client)

(***************************************************************************)
(* C19.  After a successful Chargeback of an id, a Dispute, Resolve or     *)
(* Chargeback that references the same id is a no-op and returns no        *)
(* error.  Stated for the call that follows the chargeback and names an    *)
(* existing unlocked account.  The code keeps no trace of the chargeback   *)
(* other than the lock of the charged account and leaves the id in the     *)
(* disputed-set, so the call acts on the account it names.                 *)
(***************************************************************************)
C19_ChargedBackIsTerminal ==
    [][(/\ CalledWith({"Dispute", "Resolve", "Chargeback"})
        /\ ChargedBack
        /\ last'.tx.tx = last.tx.tx
        /\ Unlocked(last'.tx.client))
         => (last'.result = Ok /\ LedgerUnchanged)]_vars

C21_WithdrawalFromUnknownClientFails ==
    [][(/\ CalledWith({"Withdrawal"})
        /\ ValidAmount(last'.tx)
        /\ Fresh(last'.tx)
        /\ ~HasAccount(last'.tx.client))
         => /\ last'.returned =
                  Err("WithdrawalError", "NoSuchAccount", <<last'.tx.client>>)
            /\ last'.result = last'.returned
            /\ accounts' = accounts]_vars

\* A withdrawal has failed with NoSuchAccount, no account was made for its
\* client, and another client has one.
C21_Witness ==
    /\ Made
    /\ last.tx.type = "Withdrawal"
    /\ last.result = Err("WithdrawalError", "NoSuchAccount", <<last.tx.client>>)
    /\ ~HasAccount(last.tx.client)
    /\ accounts # <<>>

\* What a run over the rows gives when the first n of them are applied in
\* order, each once, to the empty ledger: the ledger, and the Result of
\* the n-th row.  A row that does not decode applies nothing and is an error.
RECURSIVE RunOver(_, _)
RunOver(rows, n) ==
    IF n = 0
    THEN [ledger |-> EmptyLedger, result |-> Ok]
    ELSE LET before == RunOver(rows, n - 1).ledger IN
         IF rows[n] = NoTransaction
         THEN [ledger |-> before,
               result |-> Err("csv::Error", "Deserialize", <<>>)]
         ELSE LET out == process_transaction(before, rows[n]) IN
              [ledger |-> out.ledger, result |-> out.result]

(***************************************************************************)
(* C22.  A run of try_from over a file applies the rows in file order,     *)
(* each once, and halts at the first row whose processing returns an       *)
(* error: the ledger is always what the rows consumed so far give, no row  *)
(* before the latest returned an error, a failed run has stopped at the    *)
(* row that returned the error it hands on, and a run that is done has     *)
(* applied every row without an error.                                     *)
(***************************************************************************)
C22_RunAppliesRowsInOrderUntilFirstError ==
    /\ steps <= Len(input)
    /\ TheLedger = RunOver(input, steps).ledger
    /\ \A i \in 1..(steps - 1) : RunOver(input, i).result.ok
    /\ run = "reading" => RunOver(input, steps).result.ok
    /\ run = "failed" =>
          /\ steps >= 1
          /\ ~RunOver(input, steps).result.ok
          /\ last.result = RunOver(input, steps).result
    /\ run = "done" =>
          /\ steps = Len(input)
          /\ RunOver(input, steps).result.ok

\* A run has failed at its second row, after a row that changed the ledger,
\* and has left a row of the file unread.
C22_Witness ==
    /\ run = "failed"
    /\ steps = 2
    /\ Len(input) > steps
    /\ input[steps] # NoTransaction
    /\ accounts # <<>>

(***************************************************************************)
(* C23.  In every reachable state available, held and total of every       *)
(* account are whole multiples of 1/10,000 (of Fine model units), also     *)
(* when the amounts of the transactions carry more than four decimals.     *)
(* The code rounds in new_account, deposit_funds and withdraw_funds only:  *)
(* a dispute, resolve or chargeback moves the recorded amount unrounded.   *)
(***************************************************************************)
C23_FieldsHaveFourDecimals ==
    \A c \in DOMAIN accounts :
        /\ accounts[c].available % Fine = 0
        /\ accounts[c].held % Fine = 0
        /\ accounts[c].total % Fine = 0

(***************************************************************************)
(* C24.  Rounding is idempotent: round(round(v)) = round(v) for every      *)
(* value v.  Once round has been applied to a value, applying it to what   *)
(* it returned returns the same; and what it returned is v rounded to      *)
(* four decimals.                                                          *)
(***************************************************************************)
C24_RoundIsIdempotent ==
    [][/\ steps' = steps + 1
       /\ RoundedTo4(output'[1], input[1])
       /\ steps >= 1 => output' = output]_vars

\* A value with more than four decimals has been rounded twice.
C24_Witness ==
    /\ run = "rounding"
    /\ steps = 2
    /\ input[1] % Fine # 0
    /\ output[1] # input[1]

\* The value that the decimal digits of a field stand for.
ParseF64(text) ==
    (IF text.negative THEN -1 ELSE 1) * (text.integer * Scale + text.fraction)

\* The record carries the five fields of the account.
RecordOf(record, account) ==
    /\ record.client = account.client
    /\ ParseF64(record.available) = account.available
    /\ ParseF64(record.held) = account.held
    /\ ParseF64(record.total) = account.total
    /\ record.locked = (IF account.locked THEN "true" ELSE "false")
    /\ record.available.fraction < Scale
    /\ record.held.fraction < Scale
    /\ record.total.fraction < Scale

(***************************************************************************)
(* C25.  generate_account_statements yields one record for each account   *)
(* of the registry, locked ones included, and no other record; each        *)
(* record carries the client, available, held, total and locked of its     *)
(* account; accounts, history and disputed-set are left as they were.      *)
(* (The header line is written before the first record.)                   *)
(***************************************************************************)
C25_OneRecordPerAccount ==
    [][run' = "reported" =>
        LET records == output'.records IN
        /\ Len(records) = Cardinality(DOMAIN accounts)
        /\ \A c \in DOMAIN accounts :
              \E i \in DOMAIN records :
                  /\ RecordOf(records[i], accounts[c])
                  /\ \A j \in DOMAIN records :
                        records[j].client = c => j = i
        /\ \A i \in DOMAIN records :
              \E c \in DOMAIN accounts : RecordOf(records[i], accounts[c])
        /\ LedgerUnchanged]_vars

\* The statements of two accounts, one of them locked, have been generated.
C25_Witness ==
    /\ run = "reported"
    /\ Len(output.records) = 2
    /\ \E c \in DOMAIN accounts : accounts[c].locked
    /\ \E c \in DOMAIN accounts : accounts[c].available < 0

(***************************************************************************)
(* C26.  The clients that have an account only grow in number: a call      *)
(* removes no account and leaves every account under its client, and a     *)
(* call that creates an account is a Deposit that returned Ok and names    *)
(* the client of the new account, never a Withdrawal, Dispute, Resolve or  *)
(* Chargeback.                                                             *)
(***************************************************************************)
C26_AccountsOnlyGrow ==
    [][Called =>
        /\ DOMAIN accounts \subseteq DOMAIN accounts'
        /\ \A c \in DOMAIN accounts' : accounts'[c].client = c
        /\ \A c \in DOMAIN accounts' \ DOMAIN accounts :
              /\ last'.tx.type = "Deposit"
              /\ last'.returned = Ok
              /\ last'.tx.client = c]_vars

\* A deposit has created the account of a second client.
C26_Witness ==
    /\ Made
    /\ last.tx.type = "Deposit"
    /\ last.result = Ok
    /\ last.before = None
    /\ Cardinality(DOMAIN accounts) = 2

(***************************************************************************)
(* C27.  After every call each entry of the transaction history is a       *)
(* Deposit or Withdrawal record, stored under its own tx id, with an       *)
(* amount that is present and not negative; an entry that was there        *)
(* before the call is still there and the same; and a Dispute, Resolve or  *)
(* Chargeback never fails with AmountRequired.                             *)
(***************************************************************************)
C27_HistoryKeepsValidRecords ==
    [][Called =>
        /\ \A id \in DOMAIN transactions' :
              /\ transactions'[id].type \in {"Deposit", "Withdrawal"}
              /\ transactions'[id].tx = id
              /\ ValidAmount(transactions'[id])
        /\ \A id \in DOMAIN transactions :
              /\ id \in DOMAIN transactions'
              /\ transactions'[id] = transactions[id]
        /\ last'.tx.type \in {"Dispute", "Resolve", "Chargeback"}
              => last'.returned.kind # "AmountRequired"]_vars

\* A chargeback has taken effect on a recorded withdrawal while the history
\* holds two records.
C27_Witness ==
    /\ ChargedBack
    /\ transactions[last.tx.tx].type = "Withdrawal"
    /\ Cardinality(DOMAIN transactions) = 2

(***************************************************************************)
(* C28.  A Deposit or Withdrawal with a present, non-negative amount that  *)
(* names a locked account fails with AccountLocked when its tx id is       *)
(* fresh, changes no account, and is recorded in the history under its     *)
(* id; when its id is one already recorded (such as the id of a record     *)
(* that was refused for the lock) it fails with DuplicateTx, not           *)
(* AccountLocked, and changes nothing.                                     *)
(***************************************************************************)
C28_LockedAccountStillRecordsTheId ==
    [][(/\ CalledWith({"Deposit", "Withdrawal"})
        /\ ValidAmount(last'.tx)
        /\ Locked(last'.tx.client))
         => LET t == last'.tx IN
            /\ ~last'.result.ok
            /\ last'.result = last'.returned
            /\ accounts' = accounts
            /\ Fresh(t) =>
                  /\ last'.returned.kind = "AccountLocked"
                  /\ transactions' = (t.tx :> t) @@ transactions
            /\ ~Fresh(t) =>
                  /\ last'.returned.kind = "DuplicateTx"
                  /\ last'.returned.args = <<t.tx>>
                  /\ transactions' = transactions]_vars

\* A Deposit or Withdrawal that reuses the id of a record refused for the lock
\* has failed with DuplicateTx: the only account is locked and was created
\* by the other record of the history.
C28_Witness ==
    /\ Made
    /\ last.tx.type \in {"Deposit", "Withdrawal"}
    /\ ~last.result.ok
    /\ last.result.kind = "DuplicateTx"
    /\ Locked(last.tx.client)
    /\ DOMAIN accounts = {last.tx.client}
    /\ DOMAIN transactions = {1, 2}
    /\ disputed_transactions = {3 - last.tx.tx}
    /\ transactions[last.tx.tx].client = last.tx.client
    /\ transactions[last.tx.tx].type = "Deposit"
    /\ transactions[3 - last.tx.tx].type = "Deposit"
    /\ accounts[last.tx.client].total = 0
    /\ accounts[last.tx.client].available = 0
    /\ transactions[last.tx.tx].amount[1] > 0

\* What the call last' adds to the sum of the deposits applied to the
\* account of c, less the withdrawals applied to it, less the amounts
\* charged back against it.
Applied(c) ==
    LET t == last'.tx IN
    IF t.client # c THEN 0
    ELSE IF t.type = "Deposit" /\ last'.returned = Ok THEN t.amount[1]
    ELSE IF t.type = "Withdrawal" /\ last'.returned = Ok THEN -t.amount[1]
    ELSE IF t.type = "Chargeback" /\ Effective THEN -ReferencedAmount(t)
    ELSE 0

(***************************************************************************)
(* C29.  In every reachable state the total of each account is the sum of  *)
(* the deposits applied to it, less the withdrawals applied to it, less    *)
(* the amounts charged back against it.  The sums are empty before the     *)
(* first call, so this holds of every reachable state exactly when every   *)
(* call changes the total of every account (0 for one that does not exist  *)
(* yet) by what it adds to the account's sum; it is stated in that form,   *)
(* for amounts of at most four decimals.  The code sets total to           *)
(* available - held on a deposit or withdrawal.                            *)
(***************************************************************************)
C29_TotalIsSumOfAppliedAmounts ==
    [][(/\ Called
        /\ \A id \in DOMAIN transactions' :
              transactions'[id].amount[1] % Fine = 0)
         => \A c \in DOMAIN accounts' :
              accounts'[c].total =
                  (IF c \in DOMAIN accounts THEN accounts[c].total ELSE 0)
                  + Applied(c)]_vars

(***************************************************************************)
(* C30.  A Dispute, Resolve or Chargeback that names another client than   *)
(* the one stored on the transaction it references moves no funds and      *)
(* locks no account: the accounts are left as they were.  The code never   *)
(* compares the two clients and acts on the account that the record names. *)
(***************************************************************************)
C30_OnlyTheOwnerMovesFunds ==
    [][(/\ CalledWith({"Dispute", "Resolve", "Chargeback"})
        /\ Recorded(last'.tx)
        /\ transactions[last'.tx.tx].client # last'.tx.client)
         => accounts' = accounts]_vars

\* The sum of the amounts of the transactions of the set ids.
RECURSIVE SumOfAmounts(_)
SumOfAmounts(ids) ==
    IF ids = {} THEN 0
    ELSE LET id == CHOOSE i \in ids : TRUE IN
         transactions[id].amount[1] + SumOfAmounts(ids \ {id})

\* The open disputes of transactions that client c recorded.
OpenDisputesOf(c) ==
    {id \in disputed_transactions \cap DOMAIN transactions :
        transactions[id].client = c}

(***************************************************************************)
(* C31.  In every reachable state the held of every account is the sum of  *)
(* the amounts of the transactions of the disputed-set that its client     *)
(* recorded; so it is 0 without an open dispute and never negative.  The   *)
(* code holds the amount again on a second Dispute of the id, holds it on  *)
(* the account a Dispute names, and keeps a charged-back id in the set.    *)
(***************************************************************************)
C31_HeldIsSumOfOpenDisputes ==
    \A c \in DOMAIN accounts :
        /\ accounts[c].held = SumOfAmounts(OpenDisputesOf(c))
        /\ accounts[c].held >= 0

(***************************************************************************)
(* C32.  In every reachable state the available of every account is not    *)
(* negative, whatever deposits, withdrawals and disputes came before (a    *)
(* deposit disputed after its funds were withdrawn, a withdrawal           *)
(* disputed).  Stated for the states where only deposits are under         *)
(* dispute and for the accounts whose held is the sum of their client's    *)
(* open disputes, so that each amount is held once and on its owner.  The  *)
(* code takes the amount from available without looking at the balance.    *)
(***************************************************************************)
C32_AvailableIsNotNegative ==
    (\A id \in disputed_transactions : transactions[id].type = "Deposit")
        => \A c \in DOMAIN accounts :
               accounts[c].held = SumOfAmounts(OpenDisputesOf(c))
                   => accounts[c].available >= 0

(***************************************************************************)
(* C33.  A Withdrawal rejected with InsufficientFunds leaves the whole     *)
(* ledger unchanged: accounts, transaction history and disputed-set, so    *)
(* that its id is not recorded.  The code records the id before it         *)
(* compares the amount with the balance.                                   *)
(***************************************************************************)
C33_InsufficientFundsLeavesLedgerUnchanged ==
    [][(/\ CalledWith({"Withdrawal"})
        /\ ~last'.returned.ok
        /\ last'.returned.kind = "InsufficientFunds")
           => LedgerUnchanged]_vars

(***************************************************************************)
(* C34.  A Dispute, Resolve or Chargeback that returns an error returns    *)
(* AccountLocked or NoSuchAccount and leaves the account registry, the     *)
(* transaction history and the disputed-set exactly as they were: no       *)
(* balance is moved and no id enters or leaves the disputed-set.           *)
(***************************************************************************)
C34_FailedDisputeStepLeavesLedgerUnchanged ==
    [][(/\ CalledWith({"Dispute", "Resolve", "Chargeback"})
        /\ ~last'.returned.ok)
           => /\ last'.returned.kind \in {"AccountLocked", "NoSuchAccount"}
              /\ last'.result = last'.returned
              /\ LedgerUnchanged]_vars

\* A Resolve or Chargeback of an open dispute has failed on the account it
\* names and the dispute is still open.
C34_Witness ==
    /\ last.tx.type \in {"Resolve", "Chargeback"}
    /\ ~last.returned.ok
    /\ last.returned.kind \in {"AccountLocked", "NoSuchAccount"}
    /\ last.tx.tx \in disputed_transactions

(***************************************************************************)
(* C35.  Processing a transaction that names client c leaves the account   *)
(* of every other client d unchanged in all four fields (available, held,  *)
(* total, locked), whatever the kind of the transaction and whether it     *)
(* succeeds or fails; no account of d is created or removed either.        *)
(***************************************************************************)
C35_OtherAccountsAreUnchanged ==
    [][Called
         => \A d \in Clients \ {last'.tx.client} :
               /\ d \in DOMAIN accounts' <=> d \in DOMAIN accounts
               /\ d \in DOMAIN accounts
                    => /\ accounts'[d].available = accounts[d].available
                       /\ accounts'[d].held = accounts[d].held
                       /\ accounts'[d].total = accounts[d].total
                       /\ accounts'[d].locked = accounts[d].locked]_vars

\* A Dispute has held, on the account of the client it names, the amount of
\* a transaction that another client with an account recorded.
C35_Witness ==
    /\ last.tx.type = "Dispute"
    /\ last.returned.ok
    /\ last.before # None
    /\ last.tx.tx \in DOMAIN transactions
    /\ transactions[last.tx.tx].client # last.tx.client
    /\ transactions[last.tx.tx].client \in DOMAIN accounts
    /\ transactions[last.tx.tx].amount[1] > 0
    /\ accounts[last.tx.client].held # last.before[1].held

(***************************************************************************)
(* C36.  In every reachable state the disputed-set is a subset of the keys *)
(* of the transaction history: an id is under dispute only if a Deposit or *)
(* a Withdrawal with that id was recorded.                                 *)
(***************************************************************************)
C36_DisputedIdsAreRecorded ==
    \A id \in disputed_transactions :
        /\ id \in DOMAIN transactions
        /\ transactions[id].tx = id
        /\ transactions[id].type \in {"Deposit", "Withdrawal"}

\* One id is recorded and under dispute; a Dispute of the other id, which
\* was never recorded, has returned and that id is not under dispute.
C36_Witness ==
    /\ disputed_transactions # {}
    /\ disputed_transactions = DOMAIN transactions
    /\ last.tx.type = "Dispute"
    /\ last.returned.ok
    /\ last.tx.tx \notin DOMAIN transactions
    /\ last.tx.tx \notin disputed_transactions

====
